---- MODULE Spec2Model ----
(***************************************************************************)
(* ViewMixin of backbone.marionette (src/mixins/view.js): the lifecycle    *)
(* flags, destroy(), triggerMethod() with its cascade to the behaviors and *)
(* to the parent view, the cache of childViewEvents / childViewTriggers    *)
(* and the walk of the _parent chain.                                      *)
(*                                                                         *)
(* JavaScript is single threaded and every operation of the mixin runs to  *)
(* completion, but handlers are user code that may call back into the view *)
(* (re-entrancy).  The model therefore keeps an explicit call stack: one   *)
(* frame per active call, one action per statement of the source.  A new   *)
(* top-level call is only made when the stack is empty.                    *)
(***************************************************************************)
EXTENDS Integers, Sequences, FiniteSets, TLC

\* ------------------------------------------------------------- bounds
\* Number of views on the parent chain: view 1 is the root, view Depth the leaf.
Depth == 3
\* Number of behaviors attached to every view.
NumBehaviors == 1
\* Number of calls made by the application: top-level calls, and destroy()
\* calls made by its handlers from inside a running call.
MaxCalls == 2

\* Number of calls the application makes in a row to one of the delegation
\* operations (delegateEvents, delegateEntityEvents, undelegateEntityEvents).
MaxDelegations == 3

\* Number of calls the application makes in a run that is followed to its end.
MaxRuns == 1

\* ------------------------------------------------------------- values
Views == 1 .. Depth
\* Non-view containers (regions): region -v holds view v.
Regions == { -v : v \in 2 .. Depth }
\* "no object": undefined, null.
None == 0
Undefined == "undefined"

\* User events triggered by the application.
EventNames == {"save"}

\* A value stored in an options map: a function or a string.
FunctionValue == [type |-> "function", val |-> "handler"]
StringValue(s) == [type |-> "string", val |-> s]
\* The absent map (undefined or {}): no key.
NoMap == [k \in {} |-> FunctionValue]
\* The maps the application declares as childViewEvents / childViewTriggers.
ChildViewEventsMaps == {NoMap, [k \in {"save"} |-> FunctionValue]}
ChildViewTriggersMaps == {NoMap, [k \in {"save"} |-> StringValue("saved")]}

\* view.js:168 and getOption('childViewEventPrefix'): the default prefix on
\* every view, or a prefix of its own passed as an option to every view.
DefaultPrefix == [v \in Views |-> "childview"]
OwnPrefix == [v \in Views |-> "cv" \o ToString(v)]
PrefixConfigs == {DefaultPrefix, OwnPrefix}

\* The ui hash of the view class, {foo: ".foo"}: symbolic name -> selector.
UINames == {"foo"}
UISelector(name) == "." \o name
\* The names the application asks getUI for.
UIArgs == {"foo", "bar"}

\* A key of an events or triggers hash, "<event> <selector>": the selector
\* is literal, or "@ui.<name>" when ui is TRUE.
Key(event, ui, sel) == [event |-> event, ui |-> ui, sel |-> sel]
ClickA == Key("click", FALSE, ".a")
ClickB == Key("click", FALSE, ".b")
ClickC == Key("click", FALSE, ".c")
ClickUIFoo == Key("click", TRUE, "foo")
ClickFoo == Key("click", FALSE, ".foo")

\* A value of a delegation map: the handler of source `of` ("viewEvents",
\* "behaviorEvents", "viewTriggers", "behaviorTriggers") named `name`.
Handler(of, name) == [of |-> of, name |-> name]

\* An events / triggers declaration or argument: undefined, null, a hash, or
\* a function returning a hash.
Absent == [type |-> "undefined", val |-> NoMap]
Null == [type |-> "null", val |-> NoMap]
Hash(map) == [type |-> "hash", val |-> map]
FunctionReturning(map) == [type |-> "function", val |-> map]

\* One-key hashes.
Single(key, value) == [k \in {key} |-> value]

\* The events a view class declares, and the events passed to delegateEvents.
EventsDecls ==
  { Hash(Single(ClickA, Handler("viewEvents", "onA"))),
    Hash(Single(ClickUIFoo, Handler("viewEvents", "onFoo"))),
    FunctionReturning(Single(ClickUIFoo, Handler("viewEvents", "onFoo"))) }
EventsArgs ==
  { Absent, Null,
    Hash(Single(ClickB, Handler("viewEvents", "onB"))),
    FunctionReturning(Single(ClickUIFoo, Handler("viewEvents", "onArg"))) }
\* The triggers a view class declares: none, or a hash.
TriggersDecls ==
  { Absent,
    Hash(Single(ClickC, "trig:c")),
    Hash(Single(ClickUIFoo, "trig:foo")) }
\* What the behaviors of a view contribute, already merged over the behaviors.
BehaviorEventsMaps ==
  { NoMap,
    Single(ClickB, Handler("behaviorEvents", "onB")),
    Single(ClickFoo, Handler("behaviorEvents", "onFoo")) }
BehaviorTriggersMaps ==
  { NoMap,
    Single(ClickC, Handler("behaviorTriggers", "beh:c")),
    Single(ClickFoo, Handler("behaviorTriggers", "beh:foo")) }

VARIABLES
  _isDestroyed,          \* view -> BOOLEAN                    (view.js:15)
  _isRendered,           \* view -> BOOLEAN                    (view.js:21)
  _isAttached,           \* view -> BOOLEAN                    (view.js:27)
  _parent,               \* node -> node or None: the back-reference
  childViewEventPrefix,  \* view -> string, the option
  hasOnMethods,          \* BOOLEAN: the view class defines on<Event> methods
  entities,              \* the entities the views have: model, collection
  childViewEvents,       \* view -> map, the option as declared
  childViewTriggers,     \* view -> map, the option as declared
  _childViewEvents,      \* view -> map, the cache of _buildEventProxies
  _childViewTriggers,    \* view -> map, the cache of _buildEventProxies
  events,                \* view -> declaration: this.events
  triggers,              \* declaration: this.triggers of the view class
  behaviorEvents,        \* map: the events of the behaviors
  behaviorTriggers,      \* map: the triggers of the behaviors
  delegated,             \* view -> key -> handlers active on the root element
  redelegated,           \* view -> delegateEvents() calls in a row, no argument
  uiLookups,             \* number of lookups made in the ui caches
  found,                 \* the node the last _parentView call returned
  uiBound,               \* view -> BOOLEAN: the ui cache is bound
  subscriptions,         \* view -> (holder, entity) -> registrations held
  result,                \* outcome of the last getUI call, or the error of
                         \* the last call that failed
  stack,                 \* the call stack, top = last
  log,                   \* the observable effects, in order
  nextId,                \* id of the next call
  calls                  \* calls made by the application

vars == << _isDestroyed, _isRendered, _isAttached, _parent, childViewEventPrefix,
           hasOnMethods, entities, childViewEvents, childViewTriggers, _childViewEvents,
           _childViewTriggers, events, triggers, behaviorEvents,
           behaviorTriggers, delegated, redelegated, uiLookups, found, uiBound,
           subscriptions,
           result, stack, log, nextId, calls >>

config == << _parent, childViewEventPrefix, hasOnMethods, entities >>
flags == << _isDestroyed, _isRendered, _isAttached >>
options == << childViewEvents, childViewTriggers >>
proxies == << _childViewEvents, _childViewTriggers >>
bindings == << uiBound, subscriptions, result >>
sources == << triggers, behaviorEvents, behaviorTriggers >>
dom == << events, sources, delegated, redelegated, uiLookups, found >>

\* The entities a view may have, and who registers on them: the view itself
\* (holder 0) and each of its behaviors (holder b).
Entities == {"model", "collection"}
Holders == 0 .. NumBehaviors
NoSubscriptions == [r \in Holders \X Entities |-> 0]

\* ------------------------------------------------------------- helpers
\* The chain built by the application: a view is held by a region of its
\* parent view (odd views) or directly by its parent view (even views, the
\* child of a collection view).
InitialParent(n) ==
  IF n \in Regions THEN (-n) - 1
  ELSE IF n = 1 THEN None
  ELSE IF n % 2 = 1 THEN -n ELSE n - 1

Nodes == Views \cup Regions

\* parent instanceof View
IsView(n) == n \in Views

\* Mutant: the walk returns the immediate container, view or not.
WalkParents_immediate(parent) == parent

\* The while loop of _parentView, from the node `parent`.
RECURSIVE WalkParents(_)
WalkParents(parent) ==
  IF parent = None THEN None
  ELSE IF IsView(parent) THEN parent
  ELSE WalkParents(_parent[parent])

_parentView(v) == WalkParents(_parent[v])

\* isDestroyed(), isRendered(), isAttached()
isDestroyed(v) == _isDestroyed[v]
isRendered(v) == _isRendered[v]
isAttached(v) == _isAttached[v]

\* map[key], undefined when the key is absent
Lookup(map, key) == IF key \in DOMAIN map THEN map[key] ELSE [type |-> "undefined", val |-> Undefined]
IsFunction(x) == x.type = "function"
IsString(x) == x.type = "string"

\* The value a handler of kind `kind` returns: one value per (view, event).
HandlerResult(kind, v, eventName) ==
  kind \o "(" \o eventName \o ")@" \o ToString(v)
OnMethodResult(v, eventName) == HandlerResult("on", v, eventName)

\* The outcome of a call: nothing yet, a value, or an error thrown.
NoResult == [kind |-> "none", value |-> Undefined, cid |-> None]
Returned(value) == [kind |-> "return", value |-> value, cid |-> None]
Thrown(name, cid) == [kind |-> "throw", value |-> name, cid |-> cid]

\* ------------------------------------------------------------- stack and log
Idle == stack = << >>
Top == stack[Len(stack)]
Pop == SubSeq(stack, 1, Len(stack) - 1)
\* The top call returns `value` to its caller, which keeps it in `last`.
PopWith(value) ==
  IF Len(stack) = 1 THEN << >>
  ELSE [Pop EXCEPT ![Len(stack) - 1].last = value]
SetTop(f) == [stack EXCEPT ![Len(stack)] = f]
Push(below, f) == Append(SubSeq(stack, 1, Len(stack) - 1), below) \o << f >>

Frame(proc, v, eventName, id, caller) ==
  [proc |-> proc, view |-> v, event |-> eventName, pc |-> "start", call |-> id,
   from |-> caller, i |-> 1, ret |-> Undefined, lv |-> None, last |-> Undefined]

Running(proc, pc) == ~Idle /\ Top.proc = proc /\ Top.pc = pc

\* A destroy() of view v is on the stack.
DestroyInProgress(v) ==
  \E j \in DOMAIN stack : stack[j].proc = "destroy" /\ stack[j].view = v

\* One observable effect: `op` done by call `id` (made by call `caller`) on
\* view v; seen is isDestroyed() of v at that time.  nested: a destroy() of
\* v was already running when this destroy() was entered; beh: the behavior
\* notified; on: an on-method of the view ran; ret: the value returned; err:
\* the error the handler threw, "" when it returned.
Entry(op, v, eventName, id, caller) ==
  [op |-> op, view |-> v, event |-> eventName, call |-> id, from |-> caller,
   seen |-> isDestroyed(v), nested |-> FALSE, beh |-> 0, on |-> FALSE,
   ret |-> Undefined, err |-> ""]

TypeOK ==
  /\ _isDestroyed \in [Views -> BOOLEAN]
  /\ _isRendered \in [Views -> BOOLEAN]
  /\ _isAttached \in [Views -> BOOLEAN]
  /\ uiBound \in [Views -> BOOLEAN]
  /\ calls \in 0 .. MaxCalls

\* ------------------------------------------------------------- event composer
\* normalizeUIKeys: "@ui.<name>" in a key becomes the selector the ui hash
\* gives for the name; a key without a known name stays as it is.
normalizeUIKey(k) ==
  IF k.ui /\ k.sel \in UINames THEN Key(k.event, FALSE, UISelector(k.sel)) ELSE k
normalizeUIKeys(hash) ==
  [k \in { normalizeUIKey(a) : a \in DOMAIN hash } |->
     hash[CHOOSE a \in DOMAIN hash : normalizeUIKey(a) = k]]

\* getValue: a function is called for its value.
getValue(x) == IF x.type = "function" THEN Hash(x.val) ELSE x
\* The values JavaScript's || skips.
Falsy(x) == x.type \in {"undefined", "null"}

\* view.js:68-72
getEvents(v, eventsArg) ==
  normalizeUIKeys(getValue(IF Falsy(eventsArg) THEN events[v] ELSE eventsArg).val)

\* _getViewTriggers: each trigger becomes a handler calling triggerMethod.
_getViewTriggers(hash) == [k \in DOMAIN hash |-> Handler("viewTriggers", hash[k])]

\* view.js:76-85: nothing (undefined) without triggers.
getTriggers ==
  IF Falsy(triggers) THEN Absent
  ELSE Hash(_getViewTriggers(normalizeUIKeys(getValue(triggers).val)))

\* The events and the triggers of the behaviors of a view.
_getBehaviorEvents == Hash(behaviorEvents)
_getBehaviorTriggers == Hash(behaviorTriggers)

\* _.extend(target, source): every key of source is assigned on target; an
\* undefined source is skipped.
Extend(target, source) ==
  IF Falsy(source) THEN target
  ELSE [k \in DOMAIN target \cup DOMAIN source.val |->
          IF k \in DOMAIN source.val THEN source.val[k] ELSE target[k]]

\* Mutant: the view's events are merged last.
CombinedEvents_viewEventsLast(viewEvents) ==
  Extend(Extend(Extend(Extend(NoMap, _getBehaviorEvents), _getBehaviorTriggers),
                getTriggers),
         Hash(viewEvents))

\* view.js:56-61
CombinedEvents(viewEvents) ==
  Extend(Extend(Extend(Extend(NoMap, _getBehaviorEvents), Hash(viewEvents)),
                _getBehaviorTriggers),
         getTriggers)

\* Mutant: the handlers delegated before stay on the root element.
undelegateEvents_keep(bound) == bound

\* Backbone's undelegateEvents takes every delegated handler of the view off
\* its root element.
undelegateEvents(bound) == NoMap

\* Backbone's delegate adds one handler for the key.
delegate(bound, key, handler) ==
  [k \in DOMAIN bound \cup {key} |->
     IF k = key
     THEN (IF k \in DOMAIN bound THEN bound[k] ELSE << >>) \o << handler >>
     ELSE bound[k]]

RECURSIVE delegateAll(_, _, _)
delegateAll(bound, hash, keys) ==
  IF keys = {} THEN bound
  ELSE LET key == CHOOSE k \in keys : TRUE
       IN delegateAll(delegate(bound, key, hash[key]), hash, keys \ {key})

\* view.js:63: Backbone.View.prototype.delegateEvents(combinedEvents)
\* undelegates, then delegates every key of the hash.
BackboneDelegateEvents(bound, hash) ==
  delegateAll(undelegateEvents(bound), hash, DOMAIN hash)

\* The events, the sources and the handlers of the views after construction:
\* Backbone.View's constructor has run delegateEvents() once.
Constructed(e, t, be, bt) ==
  /\ triggers = t
  /\ behaviorEvents = be
  /\ behaviorTriggers = bt
  /\ events = [v \in Views |-> Hash(normalizeUIKeys(getValue(e).val))]
  /\ delegated = [v \in Views |->
                    BackboneDelegateEvents(NoMap, CombinedEvents(normalizeUIKeys(getValue(e).val)))]
  /\ redelegated = [v \in Views |-> 1]

\* The views as constructed (view.js:15,21,27), nothing called yet.
Fresh ==
  /\ _isDestroyed = [v \in Views |-> FALSE]
  /\ _isRendered = [v \in Views |-> FALSE]
  /\ _isAttached = [v \in Views |-> FALSE]
  /\ uiLookups = 0
  /\ found = None
  /\ uiBound = [v \in Views |-> FALSE]
  /\ subscriptions = [v \in Views |-> NoSubscriptions]
  /\ result = NoResult
  /\ stack = << >>
  /\ log = << >>
  /\ nextId = 1
  /\ calls = 0

\* Views that declare neither childViewEvents nor childViewTriggers.
NoChildViewMaps ==
  /\ childViewEvents = [v \in Views |-> NoMap]
  /\ childViewTriggers = [v \in Views |-> NoMap]
  /\ _childViewEvents = [v \in Views |-> NoMap]
  /\ _childViewTriggers = [v \in Views |-> NoMap]

\* The declarations of the event sources used where they play no part.
DefaultSources ==
  Constructed(Hash(Single(ClickA, Handler("viewEvents", "onA"))),
              Hash(Single(ClickC, "trig:c")),
              Single(ClickB, Handler("behaviorEvents", "onB")),
              NoMap)

\* ------------------------------------------------------------- Init
\* The state after construction of the views: the flags are false
\* (view.js:15,21,27) and Backbone.View's constructor has run delegateEvents
\* once, so the proxies cache the options the views were constructed with.
Init ==
  /\ _isDestroyed = [v \in Views |-> FALSE]
  /\ _isRendered = [v \in Views |-> FALSE]
  /\ _isAttached = [v \in Views |-> FALSE]
  /\ _parent = [n \in Nodes |-> InitialParent(n)]
  /\ childViewEventPrefix \in PrefixConfigs
  /\ hasOnMethods \in BOOLEAN
  /\ entities = {"model"}
  /\ \E cve \in ChildViewEventsMaps, cvt \in ChildViewTriggersMaps :
       /\ childViewEvents = [v \in Views |-> cve]
       /\ childViewTriggers = [v \in Views |-> cvt]
       /\ _childViewEvents = [v \in Views |-> cve]
       /\ _childViewTriggers = [v \in Views |-> cvt]
  /\ Constructed(Hash(Single(ClickA, Handler("viewEvents", "onA"))),
                 Hash(Single(ClickC, "trig:c")),
                 Single(ClickB, Handler("behaviorEvents", "onB")),
                 NoMap)
  /\ uiLookups = 0
  /\ found = None
  /\ uiBound = [v \in Views |-> FALSE]
  /\ subscriptions = [v \in Views |-> NoSubscriptions]
  /\ result = NoResult
  /\ stack = << >>
  /\ log = << >>
  /\ nextId = 1
  /\ calls = 0

\* ------------------------------------------------------------- user code
\* A handler (an on-method, a listener, a behavior's handler, a
\* childViewEvents function) has run, recorded as `entry`; `after` is the
\* frame of the call that invoked it.  The handler returns, or it first calls
\* destroy() on a view whose destroy() is running.
InvokeHandler(after, entry) ==
  /\ log' = Append(log, entry)
  /\ \/ /\ stack' = SetTop(after)
        /\ UNCHANGED << nextId, calls >>
     \/ /\ calls < MaxCalls
        /\ \E w \in Views :
             /\ DestroyInProgress(w)
             /\ stack' = Push(after, Frame("destroy", w, "", nextId, entry.call))
        /\ nextId' = nextId + 1
        /\ calls' = calls + 1

\* ------------------------------------------------------------- destroy
\* Mutant: destroy() without its guard.
AlreadyDestroyed_never(v) == FALSE

\* view.js:119  if (this._isDestroyed) { return this; }
AlreadyDestroyed(v) == _isDestroyed[v]

\* A destroy() of v is running below the top frame.
DestroyRunningBelow(v) ==
  \E j \in 1 .. Len(stack) - 1 : stack[j].proc = "destroy" /\ stack[j].view = v

\* view.js:118-121: the guard, then triggerMethod('before:destroy').
destroy_enter ==
  /\ Running("destroy", "start")
  /\ LET f == Top
         enter == [Entry("destroy:enter", f.view, "", f.call, f.from)
                     EXCEPT !.nested = DestroyRunningBelow(f.view)]
     IN IF AlreadyDestroyed(f.view)
        THEN /\ log' = log \o << enter, Entry("destroy:return", f.view, "", f.call, f.from) >>
             /\ stack' = PopWith(f.view)
             /\ UNCHANGED nextId
        ELSE /\ log' = Append(log, enter)
             /\ stack' = Push([f EXCEPT !.pc = "flags"],
                              Frame("triggerMethod", f.view, "before:destroy", nextId, f.call))
             /\ nextId' = nextId + 1
  /\ UNCHANGED << flags, config, dom, options, proxies, bindings, calls >>

\* Mutant: destroy() flips _isDestroyed instead of setting it.
destroy_flags_toggle ==
  /\ Running("destroy", "flags")
  /\ _isDestroyed' = [_isDestroyed EXCEPT ![Top.view] = ~@]
  /\ _isRendered' = [_isRendered EXCEPT ![Top.view] = FALSE]
  /\ log' = Append(log, Entry("flags", Top.view, "", Top.call, Top.from))
  /\ stack' = SetTop([Top EXCEPT !.pc = "unbindUI"])
  /\ UNCHANGED << _isAttached, config, dom, options, proxies, bindings, nextId, calls >>

\* view.js:124-125: update lifecycle flags.
destroy_flags ==
  /\ Running("destroy", "flags")
  /\ _isDestroyed' = [_isDestroyed EXCEPT ![Top.view] = TRUE]
  /\ _isRendered' = [_isRendered EXCEPT ![Top.view] = FALSE]
  /\ log' = Append(log, Entry("flags", Top.view, "", Top.call, Top.from))
  /\ stack' = SetTop([Top EXCEPT !.pc = "unbindUI"])
  /\ UNCHANGED << _isAttached, config, dom, options, proxies, bindings, nextId, calls >>

\* view.js:154-159: _unbindUIElements and _unbindBehaviorUIElements drop the
\* cached elements of the view and of its behaviors.
unbindUIElements(v) == [uiBound EXCEPT ![v] = FALSE]

\* view.js:146-151
bindUIElements(v) == [uiBound EXCEPT ![v] = TRUE]

\* view.js:128
destroy_unbindUI ==
  /\ Running("destroy", "unbindUI")
  /\ uiBound' = unbindUIElements(Top.view)
  /\ log' = Append(log, Entry("unbindUI", Top.view, "", Top.call, Top.from))
  /\ stack' = SetTop([Top EXCEPT !.pc = "removeElement"])
  /\ UNCHANGED << flags, config, dom, options, proxies, subscriptions, result, nextId, calls >>

\* view.js:132: Backbone's _removeElement takes the root element out of the DOM.
destroy_removeElement ==
  /\ Running("destroy", "removeElement")
  /\ log' = Append(log, Entry("removeElement", Top.view, "", Top.call, Top.from))
  /\ stack' = SetTop([Top EXCEPT !.pc = "removeChildren"])
  /\ UNCHANGED << flags, config, dom, options, proxies, bindings, nextId, calls >>

\* The child views of v: the views whose nearest ancestor view is v.
Children(v) == { c \in Views : _parentView(c) = v }

\* view.js:135: _removeChildren destroys the child views, one call each.
destroy_removeChildren ==
  /\ Running("destroy", "removeChildren")
  /\ log' = Append(log, Entry("removeChildren", Top.view, "", Top.call, Top.from))
  /\ stack' = SetTop([Top EXCEPT !.pc = "child", !.i = 1])
  /\ UNCHANGED << flags, config, dom, options, proxies, bindings, nextId, calls >>

\* The i-th child of v, in creation order.
RECURSIVE NthView(_, _)
NthView(S, n) ==
  LET m == CHOOSE x \in S : \A y \in S : x <= y
  IN IF n = 1 THEN m ELSE NthView(S \ {m}, n - 1)

destroy_child ==
  /\ Running("destroy", "child")
  /\ IF Top.i <= Cardinality(Children(Top.view))
     THEN /\ stack' = Push([Top EXCEPT !.i = Top.i + 1],
                           Frame("destroy", NthView(Children(Top.view), Top.i), "", nextId, Top.call))
          /\ nextId' = nextId + 1
          /\ UNCHANGED log
     ELSE /\ stack' = SetTop([Top EXCEPT !.pc = "destroyBehaviors"])
          /\ UNCHANGED << nextId, log >>
  /\ UNCHANGED << flags, config, dom, options, proxies, bindings, calls >>

\* A destroyed behavior stops listening: its registrations are removed.
_destroyBehaviors(subs) == [r \in DOMAIN subs |-> IF r[1] # 0 THEN 0 ELSE subs[r]]

\* view.js:137: _destroyBehaviors runs the destroy hook of every behavior.
destroy_behaviors ==
  /\ Running("destroy", "destroyBehaviors")
  /\ log' = Append(log, Entry("destroyBehaviors", Top.view, "", Top.call, Top.from))
  /\ stack' = SetTop([Top EXCEPT !.pc = "trigger"])
  /\ subscriptions' = [subscriptions EXCEPT ![Top.view] = _destroyBehaviors(@)]
  /\ UNCHANGED << flags, config, dom, options, proxies, uiBound, result, nextId, calls >>

\* view.js:139: this.triggerMethod('destroy', ...args)
destroy_trigger ==
  /\ Running("destroy", "trigger")
  /\ stack' = Push([Top EXCEPT !.pc = "stopListening"],
                   Frame("triggerMethod", Top.view, "destroy", nextId, Top.call))
  /\ nextId' = nextId + 1
  /\ UNCHANGED << flags, config, dom, options, proxies, bindings, log, calls >>

\* Backbone's stopListening() removes every registration the view itself holds.
stopListening(subs) == [r \in DOMAIN subs |-> IF r[1] = 0 THEN 0 ELSE subs[r]]

\* view.js:141-143: this.stopListening(); return this;
destroy_stopListening ==
  /\ Running("destroy", "stopListening")
  /\ log' = log \o << Entry("stopListening", Top.view, "", Top.call, Top.from),
                      Entry("destroy:return", Top.view, "", Top.call, Top.from) >>
  /\ stack' = PopWith(Top.view)
  /\ subscriptions' = [subscriptions EXCEPT ![Top.view] = stopListening(@)]
  /\ UNCHANGED << flags, config, dom, options, proxies, uiBound, result, nextId, calls >>

\* ------------------------------------------------------------- triggerMethod
\* view.js:173: the imported triggerMethod fires the event on the view and
\* calls the view's on-method when the view has one; its value is `ret`.
OwnResult(v, eventName) ==
  IF hasOnMethods THEN OnMethodResult(v, eventName) ELSE Undefined

\* Mutant: triggerMethod goes on to the parent view without the behaviors.
triggerMethod_self_skipBehaviors ==
  /\ Running("triggerMethod", "start")
  /\ LET f == Top
         ret == OwnResult(f.view, f.event)
     IN InvokeHandler([f EXCEPT !.pc = "parent", !.ret = ret, !.last = ret],
                      [Entry("trigger", f.view, f.event, f.call, f.from)
                         EXCEPT !.on = hasOnMethods, !.ret = ret])
  /\ UNCHANGED << flags, config, dom, options, proxies, bindings >>

triggerMethod_self ==
  /\ Running("triggerMethod", "start")
  /\ LET f == Top
         ret == OwnResult(f.view, f.event)
     IN InvokeHandler([f EXCEPT !.pc = "behaviors", !.i = 1, !.ret = ret, !.last = ret],
                      [Entry("trigger", f.view, f.event, f.call, f.from)
                         EXCEPT !.on = hasOnMethods, !.ret = ret])
  /\ UNCHANGED << flags, config, dom, options, proxies, bindings >>

\* view.js:175: _triggerEventOnBehaviors notifies every behavior, in order,
\* of the same event.
triggerMethod_behaviors ==
  /\ Running("triggerMethod", "behaviors")
  /\ IF Top.i <= NumBehaviors
     THEN InvokeHandler([Top EXCEPT !.i = Top.i + 1,
                                    !.last = HandlerResult("behavior", Top.view, Top.event)],
                        [Entry("behavior", Top.view, Top.event, Top.call, Top.from)
                           EXCEPT !.beh = Top.i])
     ELSE /\ stack' = SetTop([Top EXCEPT !.pc = "parent"])
          /\ UNCHANGED << log, nextId, calls >>
  /\ UNCHANGED << flags, config, dom, options, proxies, bindings >>

\* Mutant: the prefix is the default one, not the parent view's option.
PrefixedEventName_default(layoutView, eventName) ==
  "childview" \o ":" \o eventName

\* view.js:195-196
PrefixedEventName(layoutView, eventName) ==
  childViewEventPrefix[layoutView] \o ":" \o eventName

\* Mutant: an event that was itself forwarded by a child view is not
\* forwarded again.
triggerMethod_parent_singleHop ==
  /\ Running("triggerMethod", "parent")
  /\ LET layoutView == _parentView(Top.view)
         forwarded == Len(stack) > 1 /\ stack[Len(stack) - 1].proc = "triggerMethod"
     IN IF layoutView = None \/ forwarded
        THEN /\ stack' = SetTop([Top EXCEPT !.pc = "return"])
             /\ UNCHANGED nextId
        ELSE /\ stack' = Push([Top EXCEPT !.pc = "childViewEvents", !.lv = layoutView],
                              Frame("triggerMethod", layoutView,
                                    PrefixedEventName(layoutView, Top.event), nextId, Top.call))
             /\ nextId' = nextId + 1
  /\ UNCHANGED << flags, config, dom, options, proxies, bindings, log, calls >>

\* view.js:176, 188-198: without a parent view return; else trigger the
\* prefixed event on the parent view.
triggerMethod_parent ==
  /\ Running("triggerMethod", "parent")
  /\ LET layoutView == _parentView(Top.view)
     IN IF layoutView = None
        THEN /\ stack' = SetTop([Top EXCEPT !.pc = "return"])
             /\ UNCHANGED nextId
        ELSE /\ stack' = Push([Top EXCEPT !.pc = "childViewEvents", !.lv = layoutView],
                              Frame("triggerMethod", layoutView,
                                    PrefixedEventName(layoutView, Top.event), nextId, Top.call))
             /\ nextId' = nextId + 1
  /\ UNCHANGED << flags, config, dom, options, proxies, bindings, log, calls >>

\* Mutant: the childViewEvents handler is looked up under the prefixed name.
triggerMethod_childViewEvents_prefixed ==
  /\ Running("triggerMethod", "childViewEvents")
  /\ IF IsFunction(Lookup(_childViewEvents[Top.lv], PrefixedEventName(Top.lv, Top.event)))
     THEN InvokeHandler([Top EXCEPT !.pc = "childViewTriggers",
                                    !.last = HandlerResult("childViewEvents", Top.lv, Top.event)],
                        Entry("childViewEvents", Top.lv, Top.event, Top.call, Top.from))
     ELSE /\ stack' = SetTop([Top EXCEPT !.pc = "childViewTriggers"])
          /\ UNCHANGED << log, nextId, calls >>
  /\ UNCHANGED << flags, config, dom, options, proxies, bindings >>

\* view.js:201-205: the parent view's cached childViewEvents handler.
triggerMethod_childViewEvents ==
  /\ Running("triggerMethod", "childViewEvents")
  /\ IF IsFunction(Lookup(_childViewEvents[Top.lv], Top.event))
     THEN InvokeHandler([Top EXCEPT !.pc = "childViewTriggers",
                                    !.last = HandlerResult("childViewEvents", Top.lv, Top.event)],
                        Entry("childViewEvents", Top.lv, Top.event, Top.call, Top.from))
     ELSE /\ stack' = SetTop([Top EXCEPT !.pc = "childViewTriggers"])
          /\ UNCHANGED << log, nextId, calls >>
  /\ UNCHANGED << flags, config, dom, options, proxies, bindings >>

\* Mutant: the childViewTriggers event is triggered on the child view again,
\* not on the parent view.
triggerMethod_childViewTriggers_onChild ==
  /\ Running("triggerMethod", "childViewTriggers")
  /\ LET t == Lookup(_childViewTriggers[Top.lv], Top.event)
     IN IF IsString(t)
        THEN /\ stack' = Push([Top EXCEPT !.pc = "return"],
                              Frame("triggerMethod", Top.view, t.val, nextId, Top.call))
             /\ nextId' = nextId + 1
        ELSE /\ stack' = SetTop([Top EXCEPT !.pc = "return"])
             /\ UNCHANGED nextId
  /\ UNCHANGED << flags, config, dom, options, proxies, bindings, log, calls >>

\* view.js:208-213: the parent view's cached childViewTriggers.
triggerMethod_childViewTriggers ==
  /\ Running("triggerMethod", "childViewTriggers")
  /\ LET t == Lookup(_childViewTriggers[Top.lv], Top.event)
     IN IF IsString(t)
        THEN /\ stack' = Push([Top EXCEPT !.pc = "return"],
                              Frame("triggerMethod", Top.lv, t.val, nextId, Top.call))
             /\ nextId' = nextId + 1
        ELSE /\ stack' = SetTop([Top EXCEPT !.pc = "return"])
             /\ UNCHANGED nextId
  /\ UNCHANGED << flags, config, dom, options, proxies, bindings, log, calls >>

\* Mutant: triggerMethod returns what the last thing it called returned.
ReturnValue_last(f) == f.last

\* view.js:178: return ret
ReturnValue(f) == f.ret

triggerMethod_return ==
  /\ Running("triggerMethod", "return")
  /\ log' = Append(log, [Entry("trigger:return", Top.view, Top.event, Top.call, Top.from)
                           EXCEPT !.ret = ReturnValue(Top)])
  /\ stack' = PopWith(ReturnValue(Top))
  /\ UNCHANGED << flags, config, dom, options, proxies, bindings, nextId, calls >>

\* ------------------------------------------------------------- top-level calls
Call(v) ==
  /\ Idle
  /\ calls < MaxCalls
  /\ calls' = calls + 1

\* The application calls view.destroy().
CallDestroy(v) ==
  /\ Call(v)
  /\ stack' = << Frame("destroy", v, "", nextId, 0) >>
  /\ nextId' = nextId + 1
  /\ UNCHANGED << flags, config, dom, options, proxies, bindings, log >>

\* The application calls view.triggerMethod(eventName).
CallTriggerMethod(v, eventName) ==
  /\ Call(v)
  /\ stack' = << Frame("triggerMethod", v, eventName, nextId, 0) >>
  /\ nextId' = nextId + 1
  /\ UNCHANGED << flags, config, dom, options, proxies, bindings, log >>

\* view.js:182-186: _buildEventProxies caches the two options.
_buildEventProxies(v) ==
  /\ _childViewEvents' = [_childViewEvents EXCEPT ![v] = childViewEvents[v]]
  /\ _childViewTriggers' = [_childViewTriggers EXCEPT ![v] = childViewTriggers[v]]

\* Mutant: the events delegated become the events of the view in any case.
PersistedEvents_always(v, eventsArg, viewEvents) ==
  [events EXCEPT ![v] = Hash(viewEvents)]

\* view.js:52-54: if (typeof eventsArg === 'undefined') this.events = viewEvents
PersistedEvents(v, eventsArg, viewEvents) ==
  IF eventsArg.type = "undefined"
  THEN [events EXCEPT ![v] = Hash(viewEvents)]
  ELSE events

\* view.js:45-66: delegateEvents(eventsArg).  _proxyBehaviorViewProperties
\* (view.js:47) copies the root element of the view to its behaviors.
delegateEvents(v, eventsArg) ==
  /\ _buildEventProxies(v)
  /\ LET viewEvents == getEvents(v, eventsArg)
     IN /\ events' = PersistedEvents(v, eventsArg, viewEvents)
        /\ delegated' = [delegated EXCEPT
                           ![v] = BackboneDelegateEvents(@, CombinedEvents(viewEvents))]
  /\ redelegated' = [redelegated EXCEPT
                       ![v] = IF eventsArg.type = "undefined" THEN @ + 1 ELSE 0]
  /\ UNCHANGED << flags, config, options, bindings, sources, uiLookups, found,
                  stack, log, nextId >>

\* The application assigns another events declaration to a view.
SetEvents(v, decl) ==
  /\ decl # events[v]
  /\ events' = [events EXCEPT ![v] = decl]
  /\ redelegated' = [redelegated EXCEPT ![v] = 0]
  /\ UNCHANGED << flags, config, options, proxies, bindings, sources, delegated,
                  uiLookups, found, stack, log, nextId >>

\* The application declares another childViewEvents map on a view.
SetChildViewEvents(v, map) ==
  /\ Call(v)
  /\ map # childViewEvents[v]
  /\ childViewEvents' = [childViewEvents EXCEPT ![v] = map]
  /\ UNCHANGED << flags, config, dom, childViewTriggers, proxies, bindings, stack, log, nextId >>

\* The application declares another childViewTriggers map on a view.
SetChildViewTriggers(v, map) ==
  /\ Call(v)
  /\ map # childViewTriggers[v]
  /\ childViewTriggers' = [childViewTriggers EXCEPT ![v] = map]
  /\ UNCHANGED << flags, config, dom, childViewEvents, proxies, bindings, stack, log, nextId >>

\* A render pass of a live view sets _isRendered.
Render(v) ==
  /\ Call(v)
  /\ ~_isDestroyed[v]
  /\ _isRendered' = [_isRendered EXCEPT ![v] = TRUE]
  /\ UNCHANGED << _isDestroyed, _isAttached, config, dom, options, proxies, bindings, stack, log, nextId >>

\* Insertion of a live view into the document sets _isAttached.
Attach(v) ==
  /\ Call(v)
  /\ ~_isDestroyed[v]
  /\ _isAttached' = [_isAttached EXCEPT ![v] = TRUE]
  /\ UNCHANGED << _isDestroyed, _isRendered, config, dom, options, proxies, bindings, stack, log, nextId >>

\* view.js:146-151: the application calls bindUIElements().
CallBindUIElements(v) ==
  /\ Call(v)
  /\ uiBound' = bindUIElements(v)
  /\ UNCHANGED << flags, config, dom, options, proxies, subscriptions, result, stack, log, nextId >>

\* view.js:154-159: the application calls unbindUIElements().
CallUnbindUIElements(v) ==
  /\ Call(v)
  /\ uiBound' = unbindUIElements(v)
  /\ UNCHANGED << flags, config, dom, options, proxies, subscriptions, result, stack, log, nextId >>

\* Mutant: the guard lets a destroyed view through.
_ensureViewIsIntact_never(v) == NoResult

\* view.js:108-115: _ensureViewIsIntact throws on a destroyed view.
_ensureViewIsIntact(v) ==
  IF _isDestroyed[v] THEN Thrown("ViewDestroyedError", v) ELSE NoResult

\* The element of view v that matches the selector of a ui name.
Element(v, name) == "$(" \o UISelector(name) \o ")@" \o ToString(v)

\* The ui cache of view v: the elements bindUIElements resolved, one for
\* every name of the ui hash, until unbindUIElements drops them.
_ui(v) == IF uiBound[v] THEN [name \in UINames |-> Element(v, name)] ELSE NoMap

\* _getUI(name): the cached element, undefined for a name not in the cache.
_getUI(v, name) == IF name \in DOMAIN _ui(v) THEN _ui(v)[name] ELSE Undefined

\* view.js:161-164
getUI(v, name) ==
  /\ Call(v)
  /\ IF _ensureViewIsIntact(v).kind = "throw"
     THEN /\ result' = _ensureViewIsIntact(v)
          /\ UNCHANGED uiLookups
     ELSE /\ result' = Returned(_getUI(v, name))
          /\ uiLookups' = uiLookups + 1
  /\ UNCHANGED << flags, config, events, sources, delegated, redelegated, found,
                  options, proxies, uiBound, subscriptions, stack, log, nextId >>

\* The subscribe primitive: holder h registers its handlers on entity e.
on(subs, h, e) == [subs EXCEPT ![<< h, e >>] = @ + 1]
\* The unsubscribe primitive: every registration of these handlers of holder
\* h on entity e is removed.
off(subs, h, e) == [subs EXCEPT ![<< h, e >>] = 0]

\* bindEvents / unbindEvents of holder h against the model and the
\* collection, each when the view has it.
_delegateEntityEventsOf(subs, h) ==
  LET withModel == IF "model" \in entities THEN on(subs, h, "model") ELSE subs
  IN IF "collection" \in entities THEN on(withModel, h, "collection") ELSE withModel
_undelegateEntityEventsOf(subs, h) ==
  LET withModel == IF "model" \in entities THEN off(subs, h, "model") ELSE subs
  IN IF "collection" \in entities THEN off(withModel, h, "collection") ELSE withModel

\* view.js:89, 99: the view's own modelEvents and collectionEvents.
_delegateEntityEvents(subs) == _delegateEntityEventsOf(subs, 0)
_undelegateEntityEvents(subs) == _undelegateEntityEventsOf(subs, 0)

\* view.js:92, 102: the same for each behavior, in order.
RECURSIVE _delegateBehaviorEntityEvents(_, _)
_delegateBehaviorEntityEvents(subs, b) ==
  IF b > NumBehaviors THEN subs
  ELSE _delegateBehaviorEntityEvents(_delegateEntityEventsOf(subs, b), b + 1)
RECURSIVE _undelegateBehaviorEntityEvents(_, _)
_undelegateBehaviorEntityEvents(subs, b) ==
  IF b > NumBehaviors THEN subs
  ELSE _undelegateBehaviorEntityEvents(_undelegateEntityEventsOf(subs, b), b + 1)

\* view.js:88-95
delegateEntityEvents(v) ==
  /\ Idle
  /\ subscriptions' = [subscriptions EXCEPT
                         ![v] = _delegateBehaviorEntityEvents(_delegateEntityEvents(@), 1)]
  /\ log' = Append(log, Entry("delegateEntityEvents", v, "", nextId, 0))
  /\ nextId' = nextId + 1
  /\ UNCHANGED << flags, config, dom, options, proxies, uiBound, result, stack >>

\* Mutant: the registrations of the behaviors are left in place.
undelegateEntityEvents_viewOnly(v) ==
  /\ Idle
  /\ subscriptions' = [subscriptions EXCEPT ![v] = _undelegateEntityEvents(@)]
  /\ log' = Append(log, Entry("undelegateEntityEvents", v, "", nextId, 0))
  /\ nextId' = nextId + 1
  /\ UNCHANGED << flags, config, dom, options, proxies, uiBound, result, stack >>

\* view.js:98-105
undelegateEntityEvents(v) ==
  /\ Idle
  /\ subscriptions' = [subscriptions EXCEPT
                         ![v] = _undelegateBehaviorEntityEvents(_undelegateEntityEvents(@), 1)]
  /\ log' = Append(log, Entry("undelegateEntityEvents", v, "", nextId, 0))
  /\ nextId' = nextId + 1
  /\ UNCHANGED << flags, config, dom, options, proxies, uiBound, result, stack >>

Next ==
  \/ destroy_enter
  \/ destroy_flags
  \/ destroy_unbindUI
  \/ destroy_removeElement
  \/ destroy_removeChildren
  \/ destroy_child
  \/ destroy_behaviors
  \/ destroy_trigger
  \/ destroy_stopListening
  \/ triggerMethod_self
  \/ triggerMethod_behaviors
  \/ triggerMethod_parent
  \/ triggerMethod_childViewEvents
  \/ triggerMethod_childViewTriggers
  \/ triggerMethod_return
  \/ \E v \in Views :
       \/ CallDestroy(v)
       \/ \E eventName \in EventNames : CallTriggerMethod(v, eventName)
       \/ Call(v) /\ delegateEvents(v, Absent)
       \/ \E map \in ChildViewEventsMaps : SetChildViewEvents(v, map)
       \/ \E map \in ChildViewTriggersMaps : SetChildViewTriggers(v, map)
       \/ Render(v)
       \/ Attach(v)
       \/ CallBindUIElements(v)
       \/ CallUnbindUIElements(v)
       \/ \E name \in UIArgs : getUI(v, name)
       \/ Call(v) /\ delegateEntityEvents(v)
       \/ Call(v) /\ undelegateEntityEvents(v)

Spec == Init /\ [][Next]_vars

\* ------------------------------------------------------------- handlers that throw
\* The handler the running triggerMethod call is about to run, as the entry
\* it leaves in the log; none (op "") where the statement runs no handler.
HandlerAt(f) ==
  IF f.proc # "triggerMethod" THEN Entry("", f.view, f.event, f.call, f.from)
  ELSE IF f.pc = "start" /\ hasOnMethods
    THEN [Entry("trigger", f.view, f.event, f.call, f.from) EXCEPT !.on = TRUE]
  ELSE IF f.pc = "behaviors" /\ f.i <= NumBehaviors
    THEN [Entry("behavior", f.view, f.event, f.call, f.from) EXCEPT !.beh = f.i]
  ELSE IF f.pc = "childViewEvents" /\ IsFunction(Lookup(_childViewEvents[f.lv], f.event))
    THEN Entry("childViewEvents", f.lv, f.event, f.call, f.from)
  ELSE Entry("", f.view, f.event, f.call, f.from)

\* Mutant: triggerMethod catches the error of a handler and goes on.
handler_throws_swallowed ==
  /\ ~Idle
  /\ HandlerAt(Top).op # ""
  /\ log' = Append(log, [HandlerAt(Top) EXCEPT !.err = "Error"])
  /\ stack' = SetTop([Top EXCEPT !.pc = IF Top.pc = "start" THEN "behaviors"
                                       ELSE IF Top.pc = "behaviors" THEN "parent"
                                       ELSE "childViewTriggers"])
  /\ result' = Thrown("Error", HandlerAt(Top).view)
  /\ UNCHANGED << flags, config, dom, options, proxies, uiBound, subscriptions,
                  nextId, calls >>

\* view.js:172-179, 188-214: the on-method of the view (173), the handler of a
\* behavior (175) or the childViewEvents function (204) throws.  Neither
\* triggerMethod nor destroy catches: the error leaves every running call and
\* reaches the application.
handler_throws ==
  /\ ~Idle
  /\ HandlerAt(Top).op # ""
  /\ log' = Append(log, [HandlerAt(Top) EXCEPT !.err = "Error"])
  /\ stack' = << >>
  /\ result' = Thrown("Error", HandlerAt(Top).view)
  /\ UNCHANGED << flags, config, dom, options, proxies, uiBound, subscriptions,
                  nextId, calls >>

ThrowNext == Next \/ handler_throws

ThrowSpec == Init /\ [][ThrowNext]_vars

\* ------------------------------------------------------------- delegation of events
\* The views after construction, for every declaration of the four sources.
DelegateInit ==
  /\ Fresh
  /\ _parent = [n \in Nodes |-> InitialParent(n)]
  /\ childViewEventPrefix = DefaultPrefix
  /\ hasOnMethods = TRUE
  /\ entities = {"model"}
  /\ NoChildViewMaps
  /\ \E e \in EventsDecls, t \in TriggersDecls,
        be \in BehaviorEventsMaps, bt \in BehaviorTriggersMaps :
       Constructed(e, t, be, bt)

\* One more call of a delegation operation.
Delegation ==
  /\ Idle
  /\ calls < MaxDelegations
  /\ calls' = calls + 1

\* The application calls delegateEvents, with or without events, and assigns
\* events to a view.
DelegateNext ==
  \E v \in Views :
    \/ \E eventsArg \in EventsArgs : Delegation /\ delegateEvents(v, eventsArg)
    \/ \E decl \in EventsDecls : Delegation /\ SetEvents(v, decl)

DelegateSpec == DelegateInit /\ [][DelegateNext]_vars

\* ------------------------------------------------------------- delegation of entity events
\* The views after construction, with a model, a collection, both or neither.
EntityInit ==
  /\ Fresh
  /\ _parent = [n \in Nodes |-> InitialParent(n)]
  /\ childViewEventPrefix = DefaultPrefix
  /\ hasOnMethods = TRUE
  /\ entities \in SUBSET Entities
  /\ NoChildViewMaps
  /\ DefaultSources

EntityNext ==
  \E v \in Views :
    \/ Delegation /\ delegateEntityEvents(v)
    \/ Delegation /\ undelegateEntityEvents(v)

EntitySpec == EntityInit /\ [][EntityNext]_vars

\* ------------------------------------------------------------- parent chains
\* Following p from node n ends within `steps` hops.
RECURSIVE EndsWithin(_, _, _)
EndsWithin(p, n, steps) ==
  \/ n = None
  \/ steps > 0 /\ EndsWithin(p, p[n], steps - 1)

\* Every way of linking the nodes by _parent into finite chains: a node is
\* held by any other node, view or not, or by none.
ParentChains ==
  { p \in [Nodes -> Nodes \cup {None}] :
      \A n \in Nodes : EndsWithin(p, n, Cardinality(Nodes)) }

ChainInit ==
  /\ Fresh
  /\ _parent \in ParentChains
  /\ childViewEventPrefix = DefaultPrefix
  /\ hasOnMethods = TRUE
  /\ entities = {"model"}
  /\ NoChildViewMaps
  /\ DefaultSources

\* view.js:218-227: the application asks a view for its parent view.
Call_parentView(v) ==
  /\ Idle
  /\ found' = _parentView(v)
  /\ UNCHANGED << flags, config, events, sources, delegated, redelegated, uiLookups,
                  options, proxies, bindings, stack, log, nextId, calls >>

\* A container lets go of its content: the back-reference of node n is cleared.
ClearParent(n) ==
  /\ Idle
  /\ _parent[n] # None
  /\ _parent' = [_parent EXCEPT ![n] = None]
  /\ UNCHANGED << flags, childViewEventPrefix, hasOnMethods, entities, dom, options, proxies,
                  bindings, stack, log, nextId, calls >>

ChainNext ==
  \/ \E v \in Views : Call_parentView(v)
  \/ \E n \in Nodes : ClearParent(n)

ChainSpec == ChainInit /\ [][ChainNext]_vars

\* ------------------------------------------------------------- calls followed to their end
\* childViewTriggers that re-trigger an event under another name, under its
\* own name, or not at all.
SameNameTriggers == [k \in {"save"} |-> StringValue("save")]

\* The finite chains in which a region that holds nothing hangs nowhere:
\* where such a region hangs changes no walk from a view.
ViewChains ==
  { p \in ParentChains :
      \A r \in Regions : p[r] # None => \E n \in Nodes : p[n] = r }

\* The views after construction, linked into every finite chain, with
\* childViewEvents declared and every declaration of childViewTriggers.
TermInit ==
  /\ Fresh
  /\ _parent \in ViewChains
  /\ childViewEventPrefix = DefaultPrefix
  /\ hasOnMethods = TRUE
  /\ entities = {"model"}
  /\ \E cve \in ChildViewEventsMaps \ {NoMap}, cvt \in ChildViewTriggersMaps \cup {SameNameTriggers} :
       /\ childViewEvents = [v \in Views |-> cve]
       /\ childViewTriggers = [v \in Views |-> cvt]
       /\ _childViewEvents = [v \in Views |-> cve]
       /\ _childViewTriggers = [v \in Views |-> cvt]
  /\ DefaultSources

\* The application makes one more call.
Run ==
  /\ Idle
  /\ calls < MaxRuns
  /\ calls' = calls + 1

\* view.js:218-219: the application calls view._parentView(); `lv` holds the
\* variable `parent` of the loop.
Start_parentView(v) ==
  /\ stack' = << [Frame("_parentView", v, "", nextId, 0)
                   EXCEPT !.pc = "loop", !.lv = _parent[v]] >>
  /\ nextId' = nextId + 1
  /\ UNCHANGED << flags, config, dom, options, proxies, bindings, log >>

\* view.js:221-226: one turn of the while loop: no parent, return undefined;
\* a view, return it; else go on from its _parent.
_parentView_loop ==
  /\ Running("_parentView", "loop")
  /\ LET parent == Top.lv
     IN IF parent = None \/ IsView(parent)
        THEN /\ found' = parent
             /\ stack' = Pop
        ELSE /\ found' = found
             /\ stack' = SetTop([Top EXCEPT !.lv = _parent[parent]])
  /\ UNCHANGED << flags, config, events, sources, delegated, redelegated, uiLookups,
                  options, proxies, bindings, log, nextId, calls >>

\* The handlers return without making a call of their own.
HandlersReturn == calls' = calls

\* One step of the running call.
TermStep ==
  /\ \/ destroy_enter
     \/ destroy_flags
     \/ destroy_unbindUI
     \/ destroy_removeElement
     \/ destroy_removeChildren
     \/ destroy_child
     \/ destroy_behaviors
     \/ destroy_trigger
     \/ destroy_stopListening
     \/ triggerMethod_self
     \/ triggerMethod_behaviors
     \/ triggerMethod_parent
     \/ triggerMethod_childViewEvents
     \/ triggerMethod_childViewTriggers
     \/ triggerMethod_return
     \/ _parentView_loop
  /\ HandlersReturn

\* The application calls destroy(), triggerMethod() or _parentView().
TermCall ==
  \E v \in Views :
    /\ Run
    /\ \/ stack' = << Frame("destroy", v, "", nextId, 0) >>
          /\ nextId' = nextId + 1
          /\ UNCHANGED << flags, config, dom, options, proxies, bindings, log >>
       \/ \E eventName \in EventNames :
            /\ stack' = << Frame("triggerMethod", v, eventName, nextId, 0) >>
            /\ nextId' = nextId + 1
            /\ UNCHANGED << flags, config, dom, options, proxies, bindings, log >>
       \/ Start_parentView(v)

TermNext == TermStep \/ TermCall

\* JavaScript runs a call to its end before anything else: a step of the
\* running call that can be taken is taken.
TermSpec == TermInit /\ [][TermNext]_vars /\ WF_vars(TermStep)

\* ------------------------------------------------------------- reading the log
\* The positions of the log where `op` was done on view v.
LogAt(op, v) == { i \in DOMAIN log : log[i].op = op /\ log[i].view = v }

\* The positions where eventName was emitted on view v.
Emitted(v, eventName) ==
  { i \in LogAt("trigger", v) : log[i].event = eventName }

\* The teardown steps destroy() performs itself.
TeardownSteps ==
  {"flags", "unbindUI", "removeElement", "removeChildren", "destroyBehaviors",
   "stopListening"}

\* Every destroy() of v so far began when no other destroy() of v was running.
CalledInSequence(v) == \A i \in LogAt("destroy:enter", v) : ~log[i].nested

\* The call entered at position i of the log did nothing but return.
NoSideEffect(i) ==
  \A j \in DOMAIN log :
    /\ log[j].call = log[i].call => log[j].op \in {"destroy:enter", "destroy:return"}
    /\ log[j].from # log[i].call

\* C1: destroy() called N >= 1 times in sequence on a view has the effects
\* of one call: 'before:destroy' and 'destroy' are emitted once and every
\* teardown step runs once, every call entered after a destroy() of the view
\* has returned does nothing, and isDestroyed() is true after every call.
C1_DestroyIdempotent ==
  \A v \in Views :
    /\ LogAt("destroy:return", v) # {} => isDestroyed(v)
    /\ \A i \in LogAt("destroy:enter", v) :
         (\E r \in LogAt("destroy:return", v) : r < i) => NoSideEffect(i)
    /\ (CalledInSequence(v) /\ LogAt("destroy:return", v) # {}) =>
         /\ Cardinality(Emitted(v, "before:destroy")) = 1
         /\ Cardinality(Emitted(v, "destroy")) = 1
         /\ \A step \in TeardownSteps : Cardinality(LogAt(step, v)) = 1

\* Some view has returned from two destroy() calls made in sequence.
C1_Witness ==
  \E v \in Views :
    /\ CalledInSequence(v)
    /\ Cardinality(LogAt("destroy:return", v)) >= 2

\* C2: a destroy() entered on a view while a destroy() of that view is
\* running is a no-op: it emits nothing and runs no teardown step.
C2_ReentrantDestroyIsNoOp ==
  \A i \in DOMAIN log :
    (log[i].op = "destroy:enter" /\ log[i].nested) => NoSideEffect(i)

\* The step of destroy() call k an entry of the log belongs to, 0 for none.
StepOf(e, k) ==
  IF e.op = "trigger" /\ e.from = k /\ e.event = "before:destroy" THEN 1
  ELSE IF e.call = k /\ e.op = "flags" THEN 2
  ELSE IF e.call = k /\ e.op = "unbindUI" THEN 3
  ELSE IF e.call = k /\ e.op = "removeElement" THEN 4
  ELSE IF e.call = k /\ e.op = "removeChildren" THEN 5
  ELSE IF e.call = k /\ e.op = "destroyBehaviors" THEN 6
  ELSE IF e.op = "trigger" /\ e.from = k /\ e.event = "destroy" THEN 7
  ELSE IF e.call = k /\ e.op = "stopListening" THEN 8
  ELSE 0

\* The steps destroy() call k has performed, in the order of the log.
StepsOf(k) ==
  LET mine == SelectSeq(log, LAMBDA e : StepOf(e, k) # 0)
  IN [n \in DOMAIN mine |-> StepOf(mine[n], k)]

\* The destroy() calls that found the view live.
LiveDestroys == { i \in DOMAIN log : log[i].op = "destroy:enter" /\ ~log[i].seen }

\* Every destroy() of a live view has performed its steps in the order 1..8,
\* and has destroyed the children between steps 5 and 6.
DestroyStepsInOrder ==
  \A i \in LiveDestroys :
    LET k == log[i].call
    IN /\ StepsOf(k) = [n \in 1 .. Len(StepsOf(k)) |-> n]
       /\ \A c \in DOMAIN log :
            (log[c].op = "destroy:enter" /\ log[c].from = k) =>
              /\ \E j \in 1 .. c : log[j].call = k /\ log[j].op = "removeChildren"
              /\ ~ \E j \in 1 .. c : log[j].call = k /\ log[j].op = "destroyBehaviors"

\* The handlers of eventName on view v that have run: the view's own and its
\* behaviors'.
HandlersRun(eventName) ==
  { i \in DOMAIN log : log[i].op \in {"trigger", "behavior"} /\ log[i].event = eventName }

\* C3: a destroy() on a live view performs its eight steps in order; the
\* handlers of 'before:destroy' observe isDestroyed() = false and the
\* handlers of 'destroy' observe isDestroyed() = true.
C3_DestroyOrder ==
  /\ DestroyStepsInOrder
  /\ \A i \in HandlersRun("before:destroy") : ~log[i].seen
  /\ \A i \in HandlersRun("destroy") : log[i].seen

\* C4: a view that is destroyed, its destroy() having returned, is neither
\* rendered nor attached.
C4_DestroyedNotRenderedNorAttached ==
  \A v \in Views :
    (isDestroyed(v) /\ ~DestroyInProgress(v)) => (~isRendered(v) /\ ~isAttached(v))

\* C5: isDestroyed() starts false, and no operation makes it false again
\* once it is true.
C5_IsDestroyedMonotonic ==
  /\ \A v \in Views : ~isDestroyed(v)
  /\ [][\A v \in Views : _isDestroyed[v] => _isDestroyed'[v]]_vars

\* A view is still destroyed after the application has called triggerMethod,
\* destroy or getUI on it once its destroy() had returned.
C5_Witness ==
  \E v \in Views :
    /\ isDestroyed(v)
    /\ \E i \in LogAt("destroy:return", v) :
         \/ \E j \in DOMAIN log :
              j > i /\ log[j].view = v /\ log[j].from = 0
                    /\ log[j].op \in {"trigger:return", "destroy:return"}
         \/ result = Thrown("ViewDestroyedError", v)

\* The behaviors triggerMethod call k has notified before position j.
NotifiedBefore(k, j) ==
  { b \in 1 .. j - 1 : log[b].op = "behavior" /\ log[b].call = k }

\* What triggerMethod call k has sent to the parent view: the prefixed event,
\* the childViewEvents handler and the childViewTriggers event.
Forwards(k) ==
  { j \in DOMAIN log : \/ log[j].op = "trigger" /\ log[j].from = k
                       \/ log[j].op = "childViewEvents" /\ log[j].call = k }

\* C6: a triggerMethod call first emits the event on the view itself (and
\* runs its on-method), then notifies every behavior, in order, of the same
\* event, and only then forwards anything to the parent view; at every level.
C6_TriggerOrder ==
  \A i \in DOMAIN log :
    log[i].op = "trigger" =>
      LET k == log[i].call
      IN /\ log[i].on = hasOnMethods
         /\ \A j \in DOMAIN log :
              (j # i /\ (log[j].call = k \/ log[j].from = k)) => j > i
         /\ \A b \in DOMAIN log :
              (log[b].op = "behavior" /\ log[b].call = k) =>
                /\ log[b].view = log[i].view
                /\ log[b].event = log[i].event
                /\ log[b].beh = Cardinality(NotifiedBefore(k, b)) + 1
         /\ \A j \in Forwards(k) :
              /\ log[j].view = _parentView(log[i].view)
              /\ { log[b].beh : b \in NotifiedBefore(k, j) } = 1 .. NumBehaviors

\* A view with an on-method and a behavior has forwarded an event to its parent.
C6_Witness ==
  \E i, j \in DOMAIN log :
    /\ log[i].op = "trigger" /\ log[i].on
    /\ log[j].op = "trigger" /\ log[j].from = log[i].call
    /\ NotifiedBefore(log[i].call, j) # {}

\* The views with a parent view and a grandparent view.
Grandchildren ==
  { c \in Views : _parentView(c) # None /\ _parentView(_parentView(c)) # None }

\* The top-level triggerMethod('save') calls on a grandchild that have returned.
SaveCalls ==
  { r \in DOMAIN log : /\ log[r].op = "trigger:return" /\ log[r].from = 0
                       /\ log[r].event = "save" /\ log[r].view \in Grandchildren }

\* The positions where view w received eventName from call k.
Received(w, eventName, k) ==
  { j \in Emitted(w, eventName) : log[j].from = k }

\* C7 as stated: with the prefix 'childview' everywhere, C.triggerMethod('save')
\* makes P receive 'childview:save', and P's reception sends nothing on to G.
C7_SingleHopOnly ==
  childViewEventPrefix = DefaultPrefix =>
    \A r \in SaveCalls :
      LET p == _parentView(log[r].view)
          g == _parentView(p)
      IN /\ Received(p, "childview:save", log[r].call) # {}
         /\ \A j \in Received(p, "childview:save", log[r].call) :
              ~ \E m \in LogAt("trigger", g) : log[m].from = log[j].call

\* C7 as amended: P receives 'childview:save' once and P's reception is
\* forwarded to G as 'childview:childview:save' once, no handler re-triggering.
C7_ForwardedToGrandparent ==
  childViewEventPrefix = DefaultPrefix =>
    \A r \in SaveCalls :
      LET p == _parentView(log[r].view)
          g == _parentView(p)
      IN /\ Cardinality(Received(p, "childview:save", log[r].call)) = 1
         /\ \A j \in Received(p, "childview:save", log[r].call) :
              /\ Cardinality(Received(g, "childview:childview:save", log[j].call)) = 1
              /\ \A m \in LogAt("trigger", g) :
                   log[m].from = log[j].call => log[m].event = "childview:childview:save"

\* C.triggerMethod('save') has returned in a tree where every prefix is 'childview'.
C7_Witness ==
  /\ childViewEventPrefix = DefaultPrefix
  /\ SaveCalls # {}

\* Call k of eventName on view v has reached every ancestor of v, each hop
\* adding the prefix of the view that receives it.
RECURSIVE DeliveredUp(_, _, _)
DeliveredUp(k, v, eventName) ==
  LET w == _parentView(v)
  IN \/ w = None
     \/ \E j \in LogAt("trigger", w) :
          /\ log[j].from = k
          /\ log[j].event = childViewEventPrefix[w] \o ":" \o eventName
          /\ DeliveredUp(log[j].call, w, log[j].event)

\* C8: a triggerMethod call that has returned has reached every ancestor up
\* to the root, the event name prefixed once per hop with the prefix of the
\* receiving ancestor, without any handler re-triggering.
C8_CascadeReachesRoot ==
  \A r \in DOMAIN log :
    log[r].op = "trigger:return" => DeliveredUp(log[r].call, log[r].view, log[r].event)

\* The root, two hops up, has received 'cv1:cv2:save' from a call on a
\* grandchild, every view having a prefix of its own.
C8_Witness ==
  /\ childViewEventPrefix = OwnPrefix
  /\ \E r \in SaveCalls :
       /\ _parentView(_parentView(log[r].view)) = 1
       /\ \E j \in Emitted(1, "cv1:cv2:save") : j < r

\* The childViewEvents handlers call k has run on view w.
HandlerRuns(k, w) ==
  { j \in LogAt("childViewEvents", w) : log[j].call = k }

\* The events call k has triggered on view w besides the prefixed event.
Retriggers(k, w, eventName) ==
  { j \in LogAt("trigger", w) : log[j].from = k /\ log[j].event # PrefixedEventName(w, eventName) }

\* A triggerMethod call on a view with a parent view is about to return.
Forwarded == Running("triggerMethod", "return") /\ Top.lv # None

\* C9 as stated: the function the parent view declares in childViewEvents at
\* the event name has run once, and the string it declares in
\* childViewTriggers has been triggered once on it, whether or not
\* delegateEvents ran since the maps were declared.
C9_DeclaredMapsUsed ==
  Forwarded =>
    LET fn == Lookup(childViewEvents[Top.lv], Top.event)
        tr == Lookup(childViewTriggers[Top.lv], Top.event)
    IN /\ IsFunction(fn) => Cardinality(HandlerRuns(Top.call, Top.lv)) = 1
       /\ IsString(tr) =>
            /\ Cardinality(Retriggers(Top.call, Top.lv, Top.event)) = 1
            /\ \A j \in Retriggers(Top.call, Top.lv, Top.event) : log[j].event = tr.val

\* C9 as amended: the same of the maps the parent view cached when its
\* delegateEvents last ran; a key that is not in the cache runs nothing.
C9_CachedMapsUsed ==
  Forwarded =>
    LET fn == Lookup(_childViewEvents[Top.lv], Top.event)
        tr == Lookup(_childViewTriggers[Top.lv], Top.event)
    IN /\ Cardinality(HandlerRuns(Top.call, Top.lv)) = (IF IsFunction(fn) THEN 1 ELSE 0)
       /\ Cardinality(Retriggers(Top.call, Top.lv, Top.event)) = (IF IsString(tr) THEN 1 ELSE 0)
       /\ \A j \in Retriggers(Top.call, Top.lv, Top.event) : log[j].event = tr.val

\* A call returns whose parent view has run its childViewEvents handler and
\* its childViewTriggers event, the maps declared since the last
\* delegateEvents of the parent view being other ones.
C9_Witness ==
  /\ Forwarded
  /\ HandlerRuns(Top.call, Top.lv) # {}
  /\ Retriggers(Top.call, Top.lv, Top.event) # {}
  /\ childViewEvents[Top.lv] # _childViewEvents[Top.lv]

\* C10: triggerMethod returns what the view's own on-method returned for the
\* event, and no value when the view has no on-method; what the behaviors
\* and the parent view's handlers return does not change it.
C10_ReturnsOwnResult ==
  \A r \in DOMAIN log :
    log[r].op = "trigger:return" =>
      log[r].ret = (IF hasOnMethods
                    THEN OnMethodResult(log[r].view, log[r].event)
                    ELSE Undefined)

\* A call returns its on-method's value after a later handler returned another.
C10_Witness ==
  /\ Forwarded
  /\ Top.ret # Undefined
  /\ Top.last # Top.ret
  /\ \E r \in DOMAIN log : log[r].op = "trigger:return"

\* ------------------------------------------------------------- claims on the composer
\* The four sources of a delegateEvents(eventsArg) call on view v, in the
\* order of the merge; a source that is absent has no key.
MergedSources(v, eventsArg) ==
  << behaviorEvents,
     getEvents(v, eventsArg),
     behaviorTriggers,
     IF triggers = Absent THEN NoMap ELSE getTriggers.val >>

\* The latest source that has key k.
Latest(srcs, k) ==
  CHOOSE i \in 1 .. 4 :
    /\ k \in DOMAIN srcs[i]
    /\ \A j \in 1 .. 4 : k \in DOMAIN srcs[j] => j <= i

\* The handler the latest delegateEvents call on view v delegated for key k.
Handed(bound, k) == bound[k][Len(bound[k])]

\* C11: the map delegateEvents hands to the DOM-binding primitive has every
\* key of behaviorEvents, viewEvents, behaviorTriggers and viewTriggers and no
\* other key, and the value of a key is the one of the latest of these
\* sources that has it; an absent source contributes no key.
C11_MergeOrder ==
  [][\A v \in Views, eventsArg \in EventsArgs :
       delegateEvents(v, eventsArg) =>
         LET srcs == MergedSources(v, eventsArg)
         IN /\ DOMAIN delegated'[v] = UNION { DOMAIN srcs[i] : i \in 1 .. 4 }
            /\ \A k \in DOMAIN delegated'[v] :
                 Handed(delegated'[v], k) = srcs[Latest(srcs, k)][k]]_vars

\* A delegateEvents call has merged four sources that all have the key
\* "click .foo".
C11_Witness ==
  \E v \in Views :
    /\ calls > 0 /\ redelegated[v] >= 2
    /\ ClickFoo \in DOMAIN behaviorEvents \cap DOMAIN behaviorTriggers
                    \cap DOMAIN events[v].val
    /\ ~Falsy(triggers) /\ ClickFoo \in DOMAIN getTriggers.val
    /\ Handed(delegated[v], ClickFoo) = Handler("viewTriggers", "trig:foo")

\* ------------------------------------------------------------- claims on getUI
\* What a getUI call leaves alone: everything but its outcome.
ViewState ==
  << flags, config, options, proxies, events, sources, delegated, redelegated,
     found, uiBound, subscriptions >>

\* C12: getUI(name) on a destroyed view fails with a ViewDestroyedError that
\* carries the view's cid, looks nothing up in the ui cache and changes no
\* state of the view; on a live view it returns the element the ui cache
\* holds for the name.
C12_GetUIGuarded ==
  [][\A v \in Views, name \in UIArgs :
       getUI(v, name) =>
         IF isDestroyed(v)
         THEN /\ result'.kind = "throw"
              /\ result'.value = "ViewDestroyedError"
              /\ result'.cid = v
              /\ uiLookups' = uiLookups
              /\ ViewState' = ViewState
         ELSE /\ result'.kind = "return"
              /\ result'.value = (IF uiBound[v] /\ name \in UINames
                                   THEN Element(v, name) ELSE Undefined)]_vars

\* getUI has failed on a view whose destroy() had returned.
C12_Witness ==
  \E v \in Views :
    /\ isDestroyed(v)
    /\ LogAt("destroy:return", v) # {}
    /\ result = Thrown("ViewDestroyedError", v)
    /\ uiLookups = 0

\* ------------------------------------------------------------- claims on the parent chain
\* The nodes above node n, nearest first.
RECURSIVE ChainFrom(_)
ChainFrom(n) == IF n = None THEN << >> ELSE << n >> \o ChainFrom(_parent[n])

\* The first view of a chain, none when the chain has no view.
FirstView(chain) ==
  IF \E i \in DOMAIN chain : chain[i] \in Views
  THEN chain[CHOOSE i \in DOMAIN chain :
               /\ chain[i] \in Views
               /\ \A j \in 1 .. i - 1 : chain[j] \notin Views]
  ELSE None

\* C13: on every finite chain of views and other containers, _parentView
\* returns the first view above the view, skipping the containers before it,
\* and none when there is no view above it or the chain is cut; it never
\* fails.
C13_ParentViewIsFirstView ==
  [][\A v \in Views :
       Call_parentView(v) =>
         found' = FirstView(ChainFrom(_parent[v]))]_vars

\* _parentView has returned a view found above two containers that are not
\* views, in a chain where the back-reference of another view is cleared.
C13_Witness ==
  \E v, w \in Views :
    /\ _parent[v] \in Regions
    /\ _parent[_parent[v]] \in Regions
    /\ _parent[_parent[_parent[v]]] \in Views
    /\ found = _parent[_parent[_parent[v]]]
    /\ w # v /\ _parent[w] = None /\ w # found

\* ------------------------------------------------------------- claims on errors
\* The call that made call k, 0 for the application.
CallerOf(k) == log[CHOOSE j \in DOMAIN log : log[j].call = k].from

\* Call k and the calls it is nested in.
RECURSIVE ActiveAt(_)
ActiveAt(k) == IF k = 0 THEN {} ELSE {k} \cup ActiveAt(CallerOf(k))

\* The handlers that threw.
Throws == { i \in DOMAIN log : log[i].err # "" }

\* C14: an error raised by a handler during triggerMethod is not caught.  It
\* ends the call and every call that call is nested in: after the on-method of
\* the view throws no behavior is notified and nothing is forwarded; after a
\* behavior's handler throws nothing is forwarded; after the prefixed handler
\* of the parent view throws, the childViewEvents handler and the
\* childViewTriggers event of the parent view do not run.
C14_ThrowAborts ==
  \A i \in Throws :
    /\ \A j \in DOMAIN log :
         j > i => /\ log[j].call \notin ActiveAt(log[i].call)
                  /\ log[j].from \notin ActiveAt(log[i].call)
    /\ \A n \in DOMAIN stack : stack[n].call \notin ActiveAt(log[i].call)

\* The prefixed on-method of a parent view has thrown, the parent view having
\* cached a childViewEvents function and a childViewTriggers string for the
\* event; and the on-method of a view with a behavior has thrown.
C14_Witness ==
  /\ \E i \in Throws :
       /\ log[i].op = "trigger" /\ log[i].from # 0
       /\ \E c \in DOMAIN log :
            /\ log[c].call = log[i].from /\ log[c].op = "behavior"
            /\ log[c].event = "save"
            /\ _parentView(log[c].view) = log[i].view
       /\ IsFunction(Lookup(_childViewEvents[log[i].view], "save"))
       /\ IsString(Lookup(_childViewTriggers[log[i].view], "save"))
  /\ \E i \in Throws : log[i].op = "trigger" /\ log[i].from = 0

\* ------------------------------------------------------------- claims on entity events
\* The registrations held on the model and the collection for view v.
Residual(v) == { r \in Holders \X Entities : subscriptions[v][r] # 0 }

\* The operation the application called last.
LastOp == IF log = << >> THEN "" ELSE log[Len(log)].op

\* C15: once undelegateEntityEvents() has run on a view, the model and the
\* collection hold no registration of the view or of its behaviors, however
\* many times delegateEntityEvents() and undelegateEntityEvents() ran before.
C15_UndelegateLeavesNone ==
  LastOp = "undelegateEntityEvents" => Residual(log[Len(log)].view) = {}

\* delegateEntityEvents() twice, then undelegateEntityEvents(), on a view
\* with a model and a collection.
C15_Witness ==
  /\ entities = Entities
  /\ Len(log) = 3
  /\ \E v \in Views :
       /\ \A i \in 1 .. 3 : log[i].view = v
       /\ log[1].op = "delegateEntityEvents"
       /\ log[2].op = "delegateEntityEvents"
       /\ log[3].op = "undelegateEntityEvents"
       /\ Residual(v) = {}

\* ------------------------------------------------------------- claims on re-delegation
\* The keys of the map a delegateEvents() call on view v would merge now.
MergedKeys(v) == DOMAIN CombinedEvents(getEvents(v, Absent))

\* C16: after N >= 1 delegateEvents() calls in a row on a view, its events,
\* triggers and behaviors unchanged, the root element has exactly one active
\* handler for every key of the merged map and none for any other key.
C16_OneHandlerPerKey ==
  \A v \in Views :
    redelegated[v] >= 1 =>
      /\ DOMAIN delegated[v] = MergedKeys(v)
      /\ \A k \in DOMAIN delegated[v] : Len(delegated[v][k]) = 1

\* A view has been delegated three times in a row, construction included,
\* with a merged map of more than one key.
C16_Witness ==
  \E v \in Views :
    /\ redelegated[v] >= 3
    /\ Cardinality(DOMAIN delegated[v]) >= 2

\* The events of an argument, normalized: the hash, or the value of the
\* function, with the ui names in its keys resolved.
NormalizedArg(eventsArg) == normalizeUIKeys(eventsArg.val)

\* C17: delegateEvents() without an events argument stores the normalized
\* events of the view back as this.events, and a later delegateEvents() then
\* takes the same view events; delegateEvents(events) delegates the normalized
\* events of its argument and leaves this.events as it was.
C17_EventsPersisted ==
  [][\A v \in Views, eventsArg \in EventsArgs :
       delegateEvents(v, eventsArg) =>
         IF eventsArg = Absent
         THEN /\ events'[v].type = "hash"
              /\ events'[v].val = normalizeUIKeys(events[v].val)
              /\ getEvents(v, Absent)' = getEvents(v, Absent)
              /\ \A w \in Views \ {v} : events'[w] = events[w]
         ELSE IF eventsArg.type \in {"hash", "function"}
         THEN /\ events' = events
              /\ DOMAIN NormalizedArg(eventsArg) \subseteq DOMAIN delegated'[v]
              /\ \A k \in DOMAIN delegated'[v] :
                   Handed(delegated'[v], k).of = "viewEvents" =>
                     /\ k \in DOMAIN NormalizedArg(eventsArg)
                     /\ Handed(delegated'[v], k) = NormalizedArg(eventsArg)[k]
         ELSE TRUE]_vars

\* View v was given other events and then delegated without an argument;
\* view u was delegated with the events {"click .b": "onB"} as the argument
\* and kept its own events; view w was left as constructed.
C17_Witness ==
  \E v, u, w \in Views :
    /\ calls = 3
    /\ redelegated[v] = 1 /\ redelegated[u] = 0 /\ redelegated[w] = 1
    /\ events[v] # events[w] /\ events[v].type = "hash"
    /\ events[u] = events[w]
    /\ ClickB \in DOMAIN delegated[u]
    /\ ClickB \notin DOMAIN events[u].val

\* ------------------------------------------------------------- claims on destroyed ancestors
\* Entry i of the log was caused by a triggerMethod call on another view:
\* the cascade of a descendant.
FromDescendant(i) ==
  \E c \in DOMAIN log :
    /\ log[c].call = log[i].from
    /\ log[c].op = "trigger"
    /\ log[c].view # log[i].view

\* What the cascade of a descendant runs on an ancestor: the prefixed
\* on-method, the childViewEvents handler and the childViewTriggers event.
RunOnAncestor ==
  { i \in DOMAIN log :
      \/ log[i].op = "childViewEvents"
      \/ log[i].op = "trigger" /\ log[i].on /\ FromDescendant(i) }

\* C18: the cascade of a descendant runs nothing on an ancestor whose
\* isDestroyed() is already true: neither while the ancestor's destroy()
\* removes its children nor after it has returned.
C18_NothingRunsOnDestroyedAncestor ==
  \A i \in RunOnAncestor : ~log[i].seen

\* ------------------------------------------------------------- claims on termination
\* The views above v on its chain.
RECURSIVE Ancestors(_)
Ancestors(v) ==
  LET p == _parentView(v)
  IN IF p = None THEN {} ELSE {p} \cup Ancestors(p)

\* A triggerMethod call made by a triggerMethod call is on a view above the
\* caller's; a destroy() made by a destroy() is on a view below the caller's.
MovesOneWay ==
  \A j \in 1 .. Len(stack) - 1 :
    /\ stack[j].proc = "triggerMethod" /\ stack[j + 1].proc = "triggerMethod"
         => stack[j + 1].view \in Ancestors(stack[j].view)
    /\ stack[j].proc = "destroy" /\ stack[j + 1].proc = "destroy"
         => stack[j].view \in Ancestors(stack[j + 1].view)

\* C19: on every finite chain, with handlers that return without a call of
\* their own, a triggerMethod(), destroy() or _parentView() call comes to its
\* end, also with childViewTriggers declared: the forward and the re-trigger
\* only go to views above.
C19_CallsTerminate ==
  /\ []MovesOneWay
  /\ ~Idle ~> Idle

\* A triggerMethod('save') on a view with Depth - 1 views above it has
\* ended, and the root was reached by a 'save' re-triggered under its own name.
C19_Witness ==
  /\ Idle
  /\ log # << >>
  /\ log[1].op = "trigger" /\ log[1].event = "save"
  /\ Cardinality(Ancestors(log[1].view)) = Depth - 1
  /\ _childViewTriggers[1] = SameNameTriggers
  /\ \E i \in DOMAIN log :
       /\ log[i].op = "trigger"
       /\ log[i].event = "save"
       /\ log[i].from # 0
       /\ Ancestors(log[i].view) = {}

====
